---- MODULE Spec2Model ----
(***************************************************************************)
(* Model of components/interactive_image.py: the point overlay renderer    *)
(* (InteractiveImageEditor.display_image_with_points), the ROI selector    *)
(* (ROISelector.draw_roi_selector) and the manual point editor             *)
(* (ManualPointEditor.edit_points_interface).                              *)
(*                                                                         *)
(* Every call is one atomic action.  What the Streamlit widgets hand back  *)
(* (button triggers, the chart's click data, the canvas result, the        *)
(* number inputs and the selectbox choice) is drawn with \E, recorded in   *)
(* `call`, and the value the method returns is recorded in `result`.       *)
(*                                                                         *)
(* Python values: None is the empty set and a present value v is {v};      *)
(* a str is a sequence of one-character strings; a dict is a function      *)
(* whose DOMAIN is its key set; coordinates are integer pixel positions    *)
(* and the canvas scale factors are exact rationals (on the bounded values *)
(* of this model Python's float products truncate to the same integers).   *)
(***************************************************************************)
EXTENDS Integers, Sequences, FiniteSets, TLC

VARIABLES image, detections, editor, roi_selector, fig, call, result, raised

vars == <<image, detections, editor, roi_selector, fig, call, result, raised>>

----------------------------------------------------------------------------
(* Bounds *)

MaxDet == 2        \* overlay scenario: longest detection list
MaxPoints == 10    \* editor scenario: longest detection list
MaxObjects == 2    \* most shapes the canvas holds

----------------------------------------------------------------------------
(* Python values *)

None == {}
Some(v) == {v}
The(o) == CHOOSE v \in o : TRUE

\* dict.get(key, default)
Get(d, k, default) == IF k \in DOMAIN d THEN d[k] ELSE default

\* hasattr(obj, name), for an object given by its attributes
HasAttr(obj, name) == name \in DOMAIN obj

\* `sub in s` on str
Contains(sub, s) ==
    \E i \in 1..(Len(s) - Len(sub) + 1) : SubSeq(s, i, i + Len(sub) - 1) = sub

\* int(v / q) for an exact quotient: truncation toward zero, q > 0
Trunc(p, q) == IF p >= 0 THEN p \div q ELSE -((-p) \div q)

\* int(v) of an integral number
PyInt(v) == Trunc(v, 1)

DigitChars == <<"0", "1", "2", "3", "4", "5", "6", "7", "8", "9">>

RECURSIVE Digits(_)
Digits(n) == IF n < 10 THEN <<DigitChars[n + 1]>>
             ELSE Digits(n \div 10) \o <<DigitChars[(n % 10) + 1]>>

\* str(n), as an f-string formats an int
Str(n) == IF n < 0 THEN <<"-">> \o Digits(-n) ELSE Digits(n)

----------------------------------------------------------------------------
(* InteractiveImageEditor *)

\* __init__: the fields an instance is constructed with
InteractiveImageEditorInit ==
    [image |-> None, detections |-> <<>>, manual_points |-> <<>>, roi_coords |-> None]

\* the detection's y plotted as it is
PlotY_Unflipped(img, d) == d.y

\* y_coords: a detection's y in the plot's y-up coordinate system
PlotY(img, d) == img.height - d.y

GridWord == <<"g", "r", "i", "d">>
RoiWord == <<"r", "o", "i">>

AddedColor == "green"
GridColor == "red"
RoiColor == "blue"
DefaultColor == "red"

\* a grid method tested before the manual flag
MarkerColor_GridFirst(d) ==
    IF Contains(GridWord, Get(d, "method", <<>>)) THEN GridColor
    ELSE IF Get(d, "manual", FALSE) THEN AddedColor
    ELSE IF Contains(RoiWord, Get(d, "method", <<>>)) THEN RoiColor
    ELSE DefaultColor

\* the marker colour of one detection
MarkerColor(d) ==
    IF Get(d, "manual", FALSE) THEN AddedColor
    ELSE IF Contains(GridWord, Get(d, "method", <<>>)) THEN GridColor
    ELSE IF Contains(RoiWord, Get(d, "method", <<>>)) THEN RoiColor
    ELSE DefaultColor

\* the scatter trace added to the figure; None when the list is empty
Scatter(img, dets) ==
    IF dets # <<>>
    THEN Some([x |-> [i \in DOMAIN dets |-> dets[i].x],
               y |-> [i \in DOMAIN dets |-> PlotY(img, dets[i])],
               color |-> [i \in DOMAIN dets |-> MarkerColor(dets[i])],
               customdata |-> [i \in DOMAIN dets |-> dets[i].y]])
    ELSE None

\* the click's y handed on as it is
ClickToImage_Unflipped(img, click_data) ==
    <<Get(click_data, "x", 0), Get(click_data, "y", 0)>>

\* the click mapped back to image coordinates
ClickToImage(img, click_data) ==
    <<Get(click_data, "x", 0), img.height - Get(click_data, "y", 0)>>

\* the click recorded before the mode is looked at
HandleClick_PointFirst(res, img, clicked_data, add_mode, remove_mode) ==
    IF clicked_data # None /\ HasAttr(The(clicked_data), "last_clicked")
    THEN LET click_data == The(clicked_data).last_clicked
         IN  IF click_data # None /\ DOMAIN The(click_data) # {}
             THEN LET pt == ClickToImage(img, The(click_data))
                      seen == [res EXCEPT !.clicked_point = Some(pt)]
                  IN  IF add_mode THEN [seen EXCEPT !.action = Some("add")]
                      ELSE IF remove_mode THEN [seen EXCEPT !.action = Some("remove")]
                      ELSE seen
             ELSE res
    ELSE res

\* the click handling of the editing controls
HandleClick(res, img, clicked_data, add_mode, remove_mode) ==
    IF clicked_data # None /\ HasAttr(The(clicked_data), "last_clicked")
    THEN LET click_data == The(clicked_data).last_clicked
         IN  IF click_data # None /\ DOMAIN The(click_data) # {}
             THEN LET pt == ClickToImage(img, The(click_data))
                  IN  IF add_mode
                      THEN [res EXCEPT !.clicked_point = Some(pt), !.action = Some("add")]
                      ELSE IF remove_mode
                      THEN [res EXCEPT !.clicked_point = Some(pt), !.action = Some("remove")]
                      ELSE res
             ELSE res
    ELSE res

\* the whole method: what it leaves in self and in the caller's list, the
\* figure it plots and the descriptor it returns
display_image_with_points(self, img, dets, enable_editing, clicked_data, add_mode, remove_mode, roi_mode) ==
    LET res0 == [clicked_point |-> None, action |-> None, roi |-> None]
    IN  [self |-> self,
         detections |-> dets,
         fig |-> Scatter(img, dets),
         result |-> IF enable_editing
                    THEN HandleClick(res0, img, clicked_data, add_mode, remove_mode)
                    ELSE res0]

----------------------------------------------------------------------------
(* ROISelector *)

\* __init__
ROISelectorInit == [roi_coords |-> None]

\* the first of the drawn shapes
LastObject_First(objects) == objects[1]

\* the rectangle read back from the canvas: the last of the drawn shapes
LastObject(objects) == objects[Len(objects)]

\* the two axes of image_data.shape taken for one another
RemapRect_SwappedAxes(img, shape, rect) ==
    <<Trunc(rect.left * img.width, shape[1]),
      Trunc(rect.top * img.height, shape[2]),
      Trunc((rect.left + rect.width) * img.width, shape[1]),
      Trunc((rect.top + rect.height) * img.height, shape[2])>>

\* canvas coordinates to image coordinates.  shape is image_data.shape,
\* (rows, columns); scale_x = image.width / shape[1] and
\* scale_y = image.height / shape[0] are kept as exact quotients
RemapRect(img, shape, rect) ==
    <<Trunc(rect.left * img.width, shape[2]),
      Trunc(rect.top * img.height, shape[1]),
      Trunc((rect.left + rect.width) * img.width, shape[2]),
      Trunc((rect.top + rect.height) * img.height, shape[1])>>

\* the whole method: what it leaves in self and the ROI it returns
draw_roi_selector(self, img, height, canvas_result) ==
    LET roi_coords ==
            IF canvas_result.json_data # None
            THEN LET objects == The(canvas_result.json_data).objects
                 IN  IF objects # <<>>
                     THEN LET rect == LastObject(objects)
                          IN  IF rect.type = "rect"
                              THEN Some(RemapRect(img, The(canvas_result.image_data).shape, rect))
                              ELSE None
                     ELSE None
            ELSE None
    IN  [self |-> self, result |-> roi_coords]

----------------------------------------------------------------------------
(* ManualPointEditor *)

\* one entry of point_options: f"Point {i+1}: ({int(d['x'])}, {int(d['y'])})"
FormatLabel(i, d) ==
    <<"P", "o", "i", "n", "t", " ">> \o Str(i + 1) \o <<":", " ", "(">>
        \o Str(PyInt(d.x)) \o <<",", " ">> \o Str(PyInt(d.y)) \o <<")">>

\* s.split(sep)[0]: what precedes the first sep, all of s when sep is absent
SplitFirst(s, sep) ==
    IF \E i \in 1..Len(s) : s[i] = sep
    THEN SubSeq(s, 1, (CHOOSE i \in 1..Len(s) :
                          s[i] = sep /\ \A j \in 1..(i - 1) : s[j] # sep) - 1)
    ELSE s

\* s.split(): the maximal runs of non-blank characters
RECURSIVE Words(_)
Words(s) ==
    IF s = <<>> THEN <<>>
    ELSE IF s[1] = " " THEN Words(Tail(s))
    ELSE LET n == IF \E i \in 1..Len(s) : s[i] = " "
                  THEN (CHOOSE i \in 1..Len(s) :
                           s[i] = " " /\ \A j \in 1..(i - 1) : s[j] # " ") - 1
                  ELSE Len(s)
         IN  <<SubSeq(s, 1, n)>> \o Words(SubSeq(s, n + 1, Len(s)))

DigitValue(c) == CHOOSE v \in 0..9 : DigitChars[v + 1] = c

IsDigit(c) == \E v \in 0..9 : DigitChars[v + 1] = c

RECURSIVE DigitsValue(_)
DigitsValue(s) ==
    IF s = <<>> THEN 0
    ELSE 10 * DigitsValue(SubSeq(s, 1, Len(s) - 1)) + DigitValue(s[Len(s)])

\* int(s) of a str: decimal digits after an optional sign, else ValueError
ParseInt(s) ==
    LET body == IF s # <<>> /\ s[1] \in {"-", "+"} THEN Tail(s) ELSE s
    IN  IF body # <<>> /\ \A i \in 1..Len(body) : IsDigit(body[i])
        THEN [raised |-> "",
              value |-> IF s[1] = "-" THEN -DigitsValue(body) ELSE DigitsValue(body)]
        ELSE [raised |-> "ValueError", value |-> 0]

\* the 1-based numeral handed on as the index
ParseIndex_OneBased(selected_point) ==
    LET words == Words(SplitFirst(selected_point, ":"))
    IN  IF Len(words) < 2 THEN [raised |-> "IndexError", value |-> 0]
        ELSE ParseInt(words[2])

\* point_index = int(selected_point.split(":")[0].split()[1]) - 1
ParseIndex(selected_point) ==
    LET words == Words(SplitFirst(selected_point, ":"))
    IN  IF Len(words) < 2 THEN [raised |-> "IndexError", value |-> 0]
        ELSE LET n == ParseInt(words[2])
             IN  [raised |-> n.raised, value |-> n.value - 1]

\* the add flow
AddFlow(res, add_x, add_y, add_btn) ==
    IF add_btn
    THEN [res EXCEPT !.action = Some("add"), !.point = Some(<<add_x, add_y>>)]
    ELSE res

\* the remove trigger acted on without looking at the list
RemoveFlow_Unguarded(res, dets, select_index, remove_btn) ==
    IF remove_btn
    THEN [raised |-> "",
          result |-> [res EXCEPT !.action = Some("remove"), !.index = Some(select_index)]]
    ELSE [raised |-> "", result |-> res]

\* the remove flow; select_index is the position the selectbox holds
RemoveFlow(res, dets, select_index, remove_btn) ==
    IF dets # <<>>
    THEN LET point_options == [i \in DOMAIN dets |-> FormatLabel(i - 1, dets[i])]
             selected_point == point_options[select_index + 1]
         IN  IF remove_btn /\ selected_point # <<>>
             THEN LET point_index == ParseIndex(selected_point)
                  IN  IF point_index.raised # ""
                      THEN [raised |-> point_index.raised, result |-> res]
                      ELSE [raised |-> "",
                            result |-> [res EXCEPT !.action = Some("remove"),
                                                   !.index = Some(point_index.value)]]
             ELSE [raised |-> "", result |-> res]
    ELSE [raised |-> "", result |-> res]

\* the removal applied to the list that was passed in
edit_points_interface_InPlace(dets, image_size, add_x, add_y, add_btn, select_index, remove_btn) ==
    LET res0 == [action |-> None, point |-> None, index |-> None]
        out == RemoveFlow(AddFlow(res0, add_x, add_y, add_btn), dets, select_index, remove_btn)
    IN  [detections |-> IF out.result.index # None
                        THEN SubSeq(dets, 1, select_index) \o SubSeq(dets, select_index + 2, Len(dets))
                        ELSE dets,
         result |-> out.result, raised |-> out.raised]

\* the whole method: what it leaves in the caller's list, the descriptor it
\* returns and the exception it ends with ("" when it returns)
edit_points_interface(dets, image_size, add_x, add_y, add_btn, select_index, remove_btn) ==
    LET res0 == [action |-> None, point |-> None, index |-> None]
        out == RemoveFlow(AddFlow(res0, add_x, add_y, add_btn), dets, select_index, remove_btn)
    IN  [detections |-> dets, result |-> out.result, raised |-> out.raised]

----------------------------------------------------------------------------
(* What the caller and the widgets supply *)

SeqsUpTo(S, n) == UNION {[1..k -> S] : k \in 0..n}

\* the images of the overlay and editor scenarios, and of the ROI scenario
PointImages == {[width |-> 1, height |-> 2]}
RoiImages ==
    {[width |-> 3, height |-> 2], [width |-> 2, height |-> 3], [width |-> 4, height |-> 1]}

\* detections given by their coordinates alone (conf, manual and method
\* take their defaults), anywhere on the image
CoordPool(img) == {[x |-> a, y |-> b] : a \in 0..img.width, b \in 0..img.height}

Methods == {GridWord, RoiWord, RoiWord \o <<"_">> \o GridWord, <<"y", "o", "l", "o">>}

\* detections at the origin that carry the manual flag, a method, or both
AttrPool ==
    {[x |-> 0, y |-> 0, manual |-> TRUE],
     [x |-> 0, y |-> 0, manual |-> FALSE, method |-> GridWord]}
        \cup {[x |-> 0, y |-> 0, method |-> m] : m \in Methods}
        \cup {[x |-> 0, y |-> 0, manual |-> TRUE, method |-> m] : m \in Methods}

EmptyDict == [k \in {} |-> 0]

\* the dict a chart click is reported as; a key may be missing
ClickDicts(img) ==
    {EmptyDict}
        \cup {[x |-> a] : a \in 0..img.width}
        \cup {[y |-> b] : b \in 0..img.height}
        \cup {[x |-> a, y |-> b] : a \in 0..img.width, b \in 0..img.height}

\* what st.plotly_chart hands back: nothing, an object without last_clicked,
\* or an object whose last_clicked is None or a click dict
ClickedData(img) ==
    {None, Some([selection |-> None]), Some([last_clicked |-> None])}
        \cup {Some([last_clicked |-> Some(c)]) : c \in ClickDicts(img)}

\* the display heights passed to draw_roi_selector: the image is shown
\* scaled down, as it is, or on a canvas higher than the image
Heights(img) == 1..(img.height + 1)

\* the rectangles that can be dragged on a canvas of cw x ch pixels
Rects(cw, ch) ==
    {r \in [type : {"rect"}, left : 0..(cw - 1), top : 0..(ch - 1),
            width : 1..cw, height : 1..ch] :
        r.left + r.width <= cw /\ r.top + r.height <= ch}

\* what st_canvas hands back before the widget has reported
NoCanvasResult == [json_data |-> None, image_data |-> None]

\* what st_canvas hands back afterwards: the drawn shapes together with the
\* canvas pixels, shape = (rows, columns)
CanvasResult(objs, shape) ==
    [json_data |-> Some([objects |-> objs]), image_data |-> Some([shape |-> shape])]

----------------------------------------------------------------------------
(* The state machine: one render pass at a time *)

Idle == call.op = "idle"

InitComponents ==
    /\ editor = InteractiveImageEditorInit
    /\ roi_selector = ROISelectorInit
    /\ fig = None
    /\ call = [op |-> "idle"]
    /\ result = None
    /\ raised = ""

\* overlay scenario: short lists of detections anywhere on the image, or of
\* detections of every provenance
InitOverlay ==
    /\ image \in PointImages
    /\ \/ detections \in SeqsUpTo(CoordPool(image), MaxDet)
       \/ detections \in SeqsUpTo(AttrPool \cup {[x |-> 0, y |-> 0]}, MaxDet)

\* editor scenario: long lists
InitEditor ==
    /\ image \in PointImages
    /\ \E d \in CoordPool(image), n \in (MaxDet + 1)..MaxPoints :
          detections = [i \in 1..n |-> d]

\* ROI scenario: larger images, nothing detected yet
InitRoi ==
    /\ image \in RoiImages
    /\ detections = <<>>

Init == InitComponents /\ (InitOverlay \/ InitEditor \/ InitRoi)

DisplayCall ==
    /\ Idle
    /\ \E enable_editing \in BOOLEAN, clicked_data \in ClickedData(image),
          add_mode \in BOOLEAN, remove_mode \in BOOLEAN, roi_mode \in BOOLEAN :
          \* the mode buttons exist only when editing is enabled
          /\ enable_editing \/ ~(add_mode \/ remove_mode \/ roi_mode)
          /\ LET out == display_image_with_points(editor, image, detections,
                            enable_editing, clicked_data, add_mode, remove_mode, roi_mode)
             IN  /\ editor' = out.self
                 /\ detections' = out.detections
                 /\ fig' = out.fig
                 /\ result' = out.result
          /\ call' = [op |-> "display_image_with_points",
                      enable_editing |-> enable_editing, clicked_data |-> clicked_data,
                      add_mode |-> add_mode, remove_mode |-> remove_mode,
                      roi_mode |-> roi_mode]
    /\ UNCHANGED <<image, roi_selector, raised>>

\* draw_roi_selector run on what the canvas handed back
RoiReturn(height, canvas_result) ==
    /\ LET out == draw_roi_selector(roi_selector, image, height, canvas_result)
       IN  /\ roi_selector' = out.self
           /\ result' = out.result
    /\ call' = [op |-> "draw_roi_selector", height |-> height,
                canvas_result |-> canvas_result]

\* the canvas is `height` rows high and never wider than the image;
\* drawing_mode is "rect", so every shape it holds is a rectangle
RoiCall ==
    /\ Idle
    /\ \E height \in Heights(image) :
          \/ RoiReturn(height, NoCanvasResult)
          \/ \E cw \in 1..image.width, n \in 0..MaxObjects :
                \E objs \in [1..n -> Rects(cw, height)] :
                    RoiReturn(height, CanvasResult(objs, <<height, cw>>))
    /\ UNCHANGED <<image, detections, editor, fig, raised>>

EditCall ==
    /\ Idle
    /\ \E add_x \in 0..image.width, add_y \in 0..image.height, add_btn \in BOOLEAN,
          select_index \in 0..(IF detections = <<>> THEN 0 ELSE Len(detections) - 1),
          remove_btn \in BOOLEAN :
          /\ LET out == edit_points_interface(detections,
                            <<image.width, image.height>>, add_x, add_y, add_btn,
                            select_index, remove_btn)
             IN  /\ detections' = out.detections
                 /\ result' = out.result
                 /\ raised' = out.raised
          /\ call' = [op |-> "edit_points_interface", add_x |-> add_x, add_y |-> add_y,
                      add_btn |-> add_btn, select_index |-> select_index,
                      remove_btn |-> remove_btn]
    /\ UNCHANGED <<image, editor, roi_selector, fig>>

\* the method has returned; the next pass starts from the caller's state
Return ==
    /\ ~Idle
    /\ call' = [op |-> "idle"]
    /\ result' = None
    /\ fig' = None
    /\ raised' = ""
    /\ UNCHANGED <<image, detections, editor, roi_selector>>

Next == DisplayCall \/ RoiCall \/ EditCall \/ Return

Spec == Init /\ [][Next]_vars

----------------------------------------------------------------------------
(* Properties of display_image_with_points *)

Displayed == call.op = "display_image_with_points"

\* the chart reported a click that carries both coordinates
ClickRegistered ==
    /\ Displayed
    /\ call.clicked_data # None
    /\ HasAttr(The(call.clicked_data), "last_clicked")
    /\ The(call.clicked_data).last_clicked # None
    /\ DOMAIN The(The(call.clicked_data).last_clicked) = {"x", "y"}

\* the chart reported no click at all
NoClick ==
    /\ Displayed
    /\ \/ call.clicked_data = None
       \/ ~HasAttr(The(call.clicked_data), "last_clicked")
       \/ The(call.clicked_data).last_clicked = None
       \/ DOMAIN The(The(call.clicked_data).last_clicked) = {}

Click == The(The(call.clicked_data).last_clicked)

AllNull(res) == \A f \in DOMAIN res : res[f] = None

\* C1: with editing enabled and a click registered at plot coordinates
\* (cx, cy), the descriptor carries action "add" and the point
\* (cx, H - cy) when add is the active mode, and action "remove" and the same
\* point when remove is the active mode (add not triggered); without a click,
\* without an active mode or with editing disabled every field is null.
C1_ClickDescriptor ==
    Displayed =>
        /\ (call.enable_editing /\ ClickRegistered /\ call.add_mode) =>
              /\ result.action = Some("add")
              /\ result.clicked_point = Some(<<Click.x, image.height - Click.y>>)
        /\ (call.enable_editing /\ ClickRegistered /\ call.remove_mode /\ ~call.add_mode) =>
              /\ result.action = Some("remove")
              /\ result.clicked_point = Some(<<Click.x, image.height - Click.y>>)
        /\ (\/ NoClick
            \/ ~(call.add_mode \/ call.remove_mode \/ call.roi_mode)
            \/ ~call.enable_editing) => AllNull(result)

\* a click off the horizontal mid-line in remove mode, answered
C1_Witness ==
    /\ ClickRegistered
    /\ call.enable_editing /\ call.remove_mode /\ ~call.add_mode
    /\ Click.y # image.height - Click.y
    /\ result.action = Some("remove")
    /\ result.clicked_point = Some(<<Click.x, image.height - Click.y>>)

IsManual(d) == "manual" \in DOMAIN d /\ d.manual

MethodHas(word, d) == "method" \in DOMAIN d /\ Contains(word, d.method)

\* C9: the marker colour follows the precedence manual flag, then a method
\* containing "grid", then a method containing "roi", then the default: a
\* manual detection is green whatever its method, and a method containing
\* both "grid" and "roi" gets the grid colour.
C9_ColorPrecedence ==
    (Displayed /\ detections # <<>>) =>
        \A i \in DOMAIN detections :
            LET d == detections[i]
                c == The(fig).color[i]
            IN  /\ IsManual(d) => c = AddedColor
                /\ (~IsManual(d) /\ MethodHas(GridWord, d)) => c = GridColor
                /\ (~IsManual(d) /\ ~MethodHas(GridWord, d) /\ MethodHas(RoiWord, d))
                      => c = RoiColor
                /\ (~IsManual(d) /\ ~MethodHas(GridWord, d) /\ ~MethodHas(RoiWord, d))
                      => c = DefaultColor

\* a manual grid detection drawn green beside a grid-and-roi one drawn red
C9_Witness ==
    /\ Displayed /\ detections # <<>>
    /\ \E i \in DOMAIN detections :
          /\ IsManual(detections[i]) /\ MethodHas(GridWord, detections[i])
          /\ The(fig).color[i] = "green"
    /\ \E j \in DOMAIN detections :
          /\ ~IsManual(detections[j])
          /\ MethodHas(GridWord, detections[j]) /\ MethodHas(RoiWord, detections[j])
          /\ The(fig).color[j] = "red"

----------------------------------------------------------------------------
(* Properties of draw_roi_selector *)

RoiDrawn == call.op = "draw_roi_selector"

Objects ==
    IF call.canvas_result.json_data = None THEN <<>>
    ELSE The(call.canvas_result.json_data).objects

Shape == The(call.canvas_result.image_data).shape

Abs(n) == IF n < 0 THEN -n ELSE n

\* round(p / q) as Python rounds: to the nearest integer, a tie to the even one
Round(p, q) ==
    LET f == p \div q
        r == 2 * (p % q)
    IN  IF r < q THEN f
        ELSE IF r > q THEN f + 1
        ELSE IF f % 2 = 0 THEN f ELSE f + 1

\* C7: the ROI is (trunc(left*sx), trunc(top*sy), trunc((left+w)*sx),
\* trunc((top+h)*sy)) with sx = imageWidth / canvas columns and
\* sy = imageHeight / canvas rows, and its extent is within 1 of the rounded
\* scaled extent of the rectangle.
C7_RoiRemap ==
    (RoiDrawn /\ result # None) =>
        LET rect == Objects[Len(Objects)]
            W == image.width
            H == image.height
            cw == Shape[2]
            ch == Shape[1]
            r == The(result)
        IN  /\ r = << (rect.left * W) \div cw, (rect.top * H) \div ch,
                      ((rect.left + rect.width) * W) \div cw,
                      ((rect.top + rect.height) * H) \div ch >>
            /\ Abs((r[3] - r[1]) - Round(rect.width * W, cw)) <= 1
            /\ Abs((r[4] - r[2]) - Round(rect.height * H, ch)) <= 1

\* a rectangle drawn away from the canvas origin, under a scale factor that
\* is no integer, whose mapped extent is one off the rounded scaled extent
C7_Witness ==
    /\ RoiDrawn /\ result # None
    /\ LET rect == Objects[Len(Objects)]
           r == The(result)
       IN  \/ /\ rect.left > 0 /\ image.width % Shape[2] # 0
              /\ Abs((r[3] - r[1]) - Round(rect.width * image.width, Shape[2])) = 1
           \/ /\ rect.top > 0 /\ image.height % Shape[1] # 0
              /\ Abs((r[4] - r[2]) - Round(rect.height * image.height, Shape[1])) = 1

\* C8: the ROI returned is the remapped last shape of the list, whatever was
\* drawn before it, and None is returned exactly when nothing has been drawn.
C8_LastRectangle ==
    RoiDrawn =>
        /\ (result = None) <=> (Objects = <<>>)
        /\ Objects # <<>> =>
              result = Some(RemapRect(image, Shape, Objects[Len(Objects)]))

\* two rectangles that map to different ROIs, the second one returned
C8_Witness ==
    /\ RoiDrawn /\ Len(Objects) = 2
    /\ RemapRect(image, Shape, Objects[1]) # RemapRect(image, Shape, Objects[2])
    /\ result = Some(RemapRect(image, Shape, Objects[2]))

----------------------------------------------------------------------------
(* Properties of edit_points_interface *)

Edited == call.op = "edit_points_interface"

\* C3: the label of detection i parses back to i, so a confirmed removal
\* returns action "remove" with the index of the selected label, and that
\* index lies in 0..N-1.
C3_LabelRoundTrip ==
    (Edited /\ detections # <<>>) =>
        /\ \A i \in 0..(Len(detections) - 1) :
              ParseIndex(FormatLabel(i, detections[i + 1])) = [raised |-> "", value |-> i]
        /\ call.remove_btn =>
              /\ raised = ""
              /\ result.action = Some("remove")
              /\ result.index = Some(call.select_index)
              /\ The(result.index) \in 0..(Len(detections) - 1)

\* the tenth label ("Point 10: ...") removed
C3_Witness ==
    /\ Edited /\ Len(detections) >= 10
    /\ call.remove_btn /\ call.select_index = 9
    /\ result.action = Some("remove") /\ result.index = Some(9)

\* C5 (as stated): a confirmed add returns action "add" and the point (x, y)
\* within the image bounds, whatever the remove flow's selection and trigger.
C5_AddIndependent ==
    (Edited /\ call.add_btn) =>
        /\ result.action = Some("add")
        /\ result.point = Some(<<call.add_x, call.add_y>>)
        /\ call.add_x \in 0..image.width /\ call.add_y \in 0..image.height

\* C6: on an empty detection list the remove flow does nothing, whatever its
\* trigger: no "remove" action, no index, and the call returns.
C6_EmptyListInert ==
    (Edited /\ detections = <<>>) =>
        /\ raised = ""
        /\ result.action # Some("remove")
        /\ result.index = None
        /\ ~call.add_btn => result.action = None

\* the remove trigger fired on an empty list and nothing came of it
C6_Witness ==
    /\ Edited /\ detections = <<>>
    /\ call.remove_btn /\ ~call.add_btn
    /\ raised = "" /\ AllNull(result)

----------------------------------------------------------------------------
(* Properties of all three components *)

\* C4 (as stated): both edit operations return the fields action, point,
\* index and roi.
C4_UniformFields ==
    (Displayed \/ Edited) => DOMAIN result = {"action", "point", "index", "roi"}

\* C4 (amended): display_image_with_points returns the fields clicked_point,
\* action and roi, edit_points_interface the fields action, point and index;
\* action is "add", "remove" or null, and with a null action every field is
\* null.
C4_DescriptorFields ==
    /\ Displayed => DOMAIN result = {"clicked_point", "action", "roi"}
    /\ Edited => DOMAIN result = {"action", "point", "index"}
    /\ (Displayed \/ Edited) =>
          /\ result.action \in {None, Some("add"), Some("remove")}
          /\ result.action = None => AllNull(result)

\* a click answered in add mode: clicked_point and action set, roi null
C4_Witness ==
    /\ Displayed
    /\ DOMAIN result = {"clicked_point", "action", "roi"}
    /\ result.action = Some("add") /\ result.clicked_point # None /\ result.roi = None

\* C10: no call changes the caller's detection list, and the fields the
\* instances were constructed with keep their initial values.
C10_NoSideEffects ==
    [][ /\ detections' = detections
        /\ editor' = InteractiveImageEditorInit
        /\ roi_selector' = ROISelectorInit ]_vars

\* a removal was returned and the list it names a record of is as it was
C10_Witness ==
    /\ Edited /\ Len(detections) >= 2
    /\ result.action = Some("remove")
    /\ editor = InteractiveImageEditorInit
    /\ roi_selector = ROISelectorInit

====
